---- MODULE Spec2Model ----
(***************************************************************************)
(* personnel-sync: the reconciliation engine.                              *)
(*                                                                         *)
(* The module models                                                       *)
(*   - the Person / AttributeMap / ChangeSet / ChangeResults records,      *)
(*   - RemapToDestinationAttributes, IsPersonInList, PersonStatusInList    *)
(*     and GenerateChangeSet as operators computed the way the Go code     *)
(*     computes them (loops over the slices in listing order),             *)
(*   - SyncPeople as a state machine, one action per step of the function, *)
(*   - the constructors of the two destination adapters, their             *)
(*     ApplyChangeSet and the goroutines it starts.                        *)
(*                                                                         *)
(* Four specifications are given.  SpecDiff draws a source and a           *)
(* destination list from bounded sets and applies GenerateChangeSet to     *)
(* them (and, for convergence, the successful application of the change    *)
(* set followed by a second GenerateChangeSet).  SpecPlan is a run of      *)
(* SyncPeople up to its call of ApplyChangeSet, Spec a whole run with the  *)
(* goroutines of ApplyChangeSet.  SpecApply is one call of ApplyChangeSet  *)
(* of the GoogleContacts or the WebHelpDesk adapter, goroutine by          *)
(* goroutine, from the adapter's constructor on.                           *)
(*                                                                         *)
(* Strings that the code lower-cases (CompareValue) are sequences of       *)
(* ASCII codes, so that strings.ToLower is computed and not assumed.       *)
(* Attribute names, attribute values and IDs are only ever copied and      *)
(* compared for equality; they are TLA+ strings.                           *)
(***************************************************************************)
EXTENDS Naturals, Integers, Sequences, FiniteSets, TLC

VARIABLES
    pc,                 \* position of the run
    attributeMap,       \* SyncPeople's attributeMap argument ([]AttributeMap)
    dryRun,             \* SyncPeople's dryRun argument
    sourcePeople,       \* the local sourcePeople of SyncPeople / 1st argument of GenerateChangeSet
    destinationPeople,  \* the local destinationPeople / 2nd argument of GenerateChangeSet
    changeSet,          \* the ChangeSet computed by GenerateChangeSet
    results,            \* the ChangeResults returned by SyncPeople
    listErr,            \* the error a ListUsers call returned ("" when none did)
    calls,              \* how often source.ListUsers, destination.ListUsers, ApplyChangeSet were invoked
    sourceDirectory,    \* the people the source system holds (what source.ListUsers reads)
    remote,             \* the people the destination system holds (what destination.ListUsers reads)
    destinationType,    \* which adapter ApplyChangeSet belongs to: "GoogleContacts" or "WebHelpDesk"
    config,             \* the adapter's configuration: as json.Unmarshal left it, then as the constructor returns it
    batchTimer,         \* the BatchTimer local to ApplyChangeSet: the arguments it was built with
    apc,                \* position of the adapter's constructor and of the goroutine that runs ApplyChangeSet
    units,              \* the goroutines ApplyChangeSet has started, in the order of their go statements;
                        \* of each, besides its position, whether its request returned no error (ok)
                        \* and whether it did so after the server carried the change out (confirmed)
    wg,                 \* the counter of the sync.WaitGroup
    eventLog,           \* the buffer of the eventLog channel
    logged,             \* every item ever sent on eventLog, as <<unit, event>>
    consumer            \* whether a goroutine receives from eventLog while ApplyChangeSet runs

\* the variables of SyncPeople and of the diff
syncVars == <<pc, attributeMap, dryRun, sourcePeople, destinationPeople,
              changeSet, results, listErr, calls, sourceDirectory, remote>>

\* the variables of ApplyChangeSet (with changeSet and results above)
applyVars == <<destinationType, config, batchTimer, apc, units, wg,
               eventLog, logged, consumer>>

vars == <<pc, attributeMap, dryRun, sourcePeople, destinationPeople,
          changeSet, results, listErr, calls, sourceDirectory, remote,
          destinationType, config, batchTimer, apc, units, wg,
          eventLog, logged, consumer>>

-----------------------------------------------------------------------------
(* Bounds of the model *)

\* SpecDiff: the source and the destination list hold at most MaxPeople records together.
MaxPeople == 3

\* Spec: the two listings a run of SyncPeople fetches hold at most MaxFetched records together.
MaxFetched == 2

-----------------------------------------------------------------------------
(* Strings *)

\* "A", "a", "b" as ASCII codes: two spellings of one identity, and another identity.
CompareValues == { <<65>>, <<97>>, <<98>> }

\* unicode.ToLower on one ASCII code point: 'A'..'Z' go to 'a'..'z'.
ToLowerChar(c) == IF c >= 65 /\ c <= 90 THEN c + 32 ELSE c

\* strings.ToLower
ToLower(s) == [i \in 1..Len(s) |-> ToLowerChar(s[i])]

EmptyString == ""

-----------------------------------------------------------------------------
(* Records *)

\* type Person struct
Person(compareValue, id, attributes, disableChanges) ==
    [CompareValue   |-> compareValue,
     ID             |-> id,
     Attributes     |-> attributes,
     DisableChanges |-> disableChanges]

\* type AttributeMap struct
AttributeMap(source, destination, required, caseSensitive) ==
    [Source        |-> source,
     Destination   |-> destination,
     Required      |-> required,
     CaseSensitive |-> caseSensitive]

\* type ChangeSet struct
ChangeSet(create, update, delete) ==
    [Create |-> create, Update |-> update, Delete |-> delete]

\* var changeSet ChangeSet: the zero value, three empty slices
EmptyChangeSet == ChangeSet(<<>>, <<>>, <<>>)

\* type ChangeResults struct (with the Errors field SyncPeople fills)
ChangeResults(created, updated, deleted, errors) ==
    [Created |-> created, Updated |-> updated, Deleted |-> deleted, Errors |-> errors]

\* ChangeResults{}: the zero value
ZeroResults == ChangeResults(0, 0, 0, <<>>)

-----------------------------------------------------------------------------
(* The diff *)

\* DeepEqual comparing the key sets only
DeepEqual_KeysOnly(attrs, other) ==
    DOMAIN attrs = DOMAIN other

\* DeepEqual as a subset test: every key of attrs is in other with the same value
DeepEqual_SourceSubset(attrs, other) ==
    \A k \in DOMAIN attrs : k \in DOMAIN other /\ attrs[k] = other[k]

\* reflect.DeepEqual on two non-nil map[string]string values: the same key set
\* and the same value under every key.
DeepEqual(attrs, other) ==
    /\ DOMAIN attrs = DOMAIN other
    /\ \A k \in DOMAIN attrs : attrs[k] = other[k]

\* the loop of IsPersonInList from index i on
RECURSIVE IsPersonInListFrom(_, _, _)
IsPersonInListFrom(i, lowerCompareValue, peopleList) ==
    IF i > Len(peopleList) THEN FALSE
    ELSE IF ToLower(peopleList[i].CompareValue) = lowerCompareValue THEN TRUE
    ELSE IsPersonInListFrom(i + 1, lowerCompareValue, peopleList)

\* IsPersonInList without the strings.ToLower calls
IsPersonInList_CaseSensitive(compareValue, peopleList) ==
    \E i \in 1..Len(peopleList) : peopleList[i].CompareValue = compareValue

IsPersonInList(compareValue, peopleList) ==
    IsPersonInListFrom(1, ToLower(compareValue), peopleList)

PersonIsNotInList == 0
PersonIsInList == 1
PersonIsInListButDifferent == 2

\* the loop of PersonStatusInList from index i on: the first record whose
\* lower-cased CompareValue matches decides
RECURSIVE PersonStatusInListFrom(_, _, _, _)
PersonStatusInListFrom(i, lowerCompareValue, attrs, peopleList) ==
    IF i > Len(peopleList) THEN PersonIsNotInList
    ELSE IF ToLower(peopleList[i].CompareValue) = lowerCompareValue
         THEN IF ~DeepEqual(attrs, peopleList[i].Attributes)
              THEN PersonIsInListButDifferent
              ELSE PersonIsInList
         ELSE PersonStatusInListFrom(i + 1, lowerCompareValue, attrs, peopleList)

\* PersonStatusInList without the strings.ToLower calls
PersonStatusInList_CaseSensitive(compareValue, attrs, peopleList) ==
    LET hits == {i \in 1..Len(peopleList) : peopleList[i].CompareValue = compareValue}
    IN  IF hits = {} THEN PersonIsNotInList
        ELSE LET first == CHOOSE i \in hits : \A j \in hits : i <= j
             IN  IF ~DeepEqual(attrs, peopleList[first].Attributes)
                 THEN PersonIsInListButDifferent
                 ELSE PersonIsInList

\* PersonStatusInList with the test of reflect.DeepEqual not negated
PersonStatusInList_Negated(compareValue, attrs, peopleList) ==
    LET status == PersonStatusInListFrom(1, ToLower(compareValue), attrs, peopleList)
    IN  IF status = PersonIsInList THEN PersonIsInListButDifferent
        ELSE IF status = PersonIsInListButDifferent THEN PersonIsInList
        ELSE status

PersonStatusInList(compareValue, attrs, peopleList) ==
    PersonStatusInListFrom(1, ToLower(compareValue), attrs, peopleList)

\* the first loop of GenerateChangeSet ("find users who need to be created")
\* from index i on, cs being the change set built so far
RECURSIVE GenerateFromSource(_, _, _, _)
GenerateFromSource(i, srcPeople, dstPeople, cs) ==
    IF i > Len(srcPeople) THEN cs
    ELSE LET sp == srcPeople[i]
             personInDestinationStatus ==
                 PersonStatusInList(sp.CompareValue, sp.Attributes, dstPeople)
             next ==
                 IF sp.DisableChanges THEN cs
                 ELSE IF personInDestinationStatus = PersonIsNotInList
                      THEN [cs EXCEPT !.Create = Append(@, sp)]
                 ELSE IF personInDestinationStatus = PersonIsInListButDifferent
                      THEN [cs EXCEPT !.Update = Append(@, sp)]
                 ELSE cs
         IN  GenerateFromSource(i + 1, srcPeople, dstPeople, next)

\* the second loop of GenerateChangeSet ("find users who need to be deleted")
RECURSIVE GenerateFromDestination(_, _, _, _)
GenerateFromDestination(i, srcPeople, dstPeople, cs) ==
    IF i > Len(dstPeople) THEN cs
    ELSE LET dp == dstPeople[i]
             next ==
                 IF ~IsPersonInList(dp.CompareValue, srcPeople)
                 THEN [cs EXCEPT !.Delete = Append(@, dp)]
                 ELSE cs
         IN  GenerateFromDestination(i + 1, srcPeople, dstPeople, next)

\* GenerateChangeSet without its second loop
GenerateChangeSet_NoDelete(srcPeople, dstPeople) ==
    GenerateFromSource(1, srcPeople, dstPeople, EmptyChangeSet)

\* GenerateChangeSet appending to Update the destination's record instead of the source's
GenerateChangeSet_UpdateFromDestination(srcPeople, dstPeople) ==
    LET cs == GenerateFromDestination(1, srcPeople, dstPeople,
                  GenerateFromSource(1, srcPeople, dstPeople, EmptyChangeSet))
        match(sp) == CHOOSE j \in 1..Len(dstPeople) :
                        /\ ToLower(dstPeople[j].CompareValue) = ToLower(sp.CompareValue)
                        /\ \A k \in 1..(j - 1) :
                              ToLower(dstPeople[k].CompareValue) # ToLower(sp.CompareValue)
    IN  [cs EXCEPT !.Update = [i \in 1..Len(@) |-> dstPeople[match(@[i])]]]

GenerateChangeSet(srcPeople, dstPeople) ==
    GenerateFromDestination(1, srcPeople, dstPeople,
        GenerateFromSource(1, srcPeople, dstPeople, EmptyChangeSet))

-----------------------------------------------------------------------------
(* The projection *)

NoError == EmptyString

\* the inner loop of RemapToDestinationAttributes over attributeMap from entry
\* i on, for one person: acc holds attrs and disableChanges as built so far
RECURSIVE RemapAttributesFrom(_, _, _, _)
RemapAttributesFrom(i, person, attrMaps, acc) ==
    IF i > Len(attrMaps) THEN acc
    ELSE LET attrMap == attrMaps[i]
             next ==
                 IF attrMap.Source \in DOMAIN person.Attributes
                 THEN [acc EXCEPT !.attrs =
                          [k \in (DOMAIN @) \cup {attrMap.Destination} |->
                              IF k = attrMap.Destination
                              THEN person.Attributes[attrMap.Source]
                              ELSE @[k]]]
                 ELSE IF attrMap.Required
                      THEN [acc EXCEPT !.disableChanges = TRUE]
                 ELSE acc
         IN  RemapAttributesFrom(i + 1, person, attrMaps, next)

\* the body of the outer loop: the Person appended for one source person
RemapPerson(person, attrMaps) ==
    LET built == RemapAttributesFrom(1, person, attrMaps,
                     [attrs |-> [k \in {} |-> EmptyString], disableChanges |-> FALSE])
    IN  [CompareValue   |-> person.CompareValue,
         ID             |-> EmptyString,
         Attributes     |-> built.attrs,
         DisableChanges |-> built.disableChanges]

\* RemapToDestinationAttributes with "else if attrMap.Required" read as
\* "else": any absent source attribute disables the record
RemapToDestinationAttributes_AnyMissingDisables(sourcePersons, attrMaps) ==
    [People |-> [i \in 1..Len(sourcePersons) |->
                    [RemapPerson(sourcePersons[i], attrMaps) EXCEPT !.DisableChanges =
                        \E k \in 1..Len(attrMaps) :
                            attrMaps[k].Source \notin DOMAIN sourcePersons[i].Attributes]],
     Err    |-> NoError]

\* RemapToDestinationAttributes handing the source records on as they are
RemapToDestinationAttributes_Unmapped(sourcePersons, attrMaps) ==
    [People |-> sourcePersons, Err |-> NoError]

\* RemapToDestinationAttributes with a missing required attribute left unnoticed
RemapToDestinationAttributes_RequiredIgnored(sourcePersons, attrMaps) ==
    [People |-> [i \in 1..Len(sourcePersons) |->
                    [RemapPerson(sourcePersons[i], attrMaps) EXCEPT !.DisableChanges = FALSE]],
     Err    |-> NoError]

\* the two results of RemapToDestinationAttributes: the slice and the error (always nil)
RemapToDestinationAttributes(sourcePersons, attrMaps) ==
    [People |-> [i \in 1..Len(sourcePersons) |-> RemapPerson(sourcePersons[i], attrMaps)],
     Err    |-> NoError]

-----------------------------------------------------------------------------
(* The destination directory *)

\* The effect on the destination directory of the changes that were applied
\* successfully: okCreate, okUpdate and okDelete are the indexes into
\* changes.Create, changes.Update and changes.Delete of the operations that
\* succeeded.  A create adds the record, an update replaces the attributes of
\* the (first) record with the same identity by the source's, a delete removes
\* the record.

RECURSIVE UpdateFirstMatch(_, _, _)
UpdateFirstMatch(i, directory, person) ==
    IF i > Len(directory) THEN directory
    ELSE IF ToLower(directory[i].CompareValue) = ToLower(person.CompareValue)
         THEN [directory EXCEPT ![i].Attributes = person.Attributes]
         ELSE UpdateFirstMatch(i + 1, directory, person)

RECURSIVE ApplyCreates(_, _, _, _)
ApplyCreates(i, directory, create, ok) ==
    IF i > Len(create) THEN directory
    ELSE ApplyCreates(i + 1,
                      IF i \in ok THEN Append(directory, create[i]) ELSE directory,
                      create, ok)

RECURSIVE ApplyUpdates(_, _, _, _)
ApplyUpdates(i, directory, update, ok) ==
    IF i > Len(update) THEN directory
    ELSE ApplyUpdates(i + 1,
                      IF i \in ok THEN UpdateFirstMatch(1, directory, update[i]) ELSE directory,
                      update, ok)

ApplyDeletes(directory, delete, ok) ==
    SelectSeq(directory, LAMBDA p : \A i \in ok : delete[i] # p)

ApplyToDirectory(directory, changes, okCreate, okUpdate, okDelete) ==
    ApplyDeletes(
        ApplyUpdates(1,
            ApplyCreates(1, directory, changes.Create, okCreate),
            changes.Update, okUpdate),
        changes.Delete, okDelete)

-----------------------------------------------------------------------------
(* Inputs *)

EmptyAttributes == [k \in {} |-> EmptyString]

\* attribute mappings under the destination's keys: none, one key with either
\* of two values, and two keys
DestinationAttributes ==
    { EmptyAttributes,
      [k \in {"k1"} |-> "x"],
      [k \in {"k1"} |-> "y"],
      [k \in {"k1", "k2"} |-> "x"] }

\* source records as GenerateChangeSet takes them: no ID, changes disabled or not
ComparableSourcePersons ==
    { Person(cv, EmptyString, a, d) :
        cv \in CompareValues, a \in DestinationAttributes, d \in BOOLEAN }

\* the adapters of src/: googledest.GoogleContacts and webhelpdesk.WebHelpDesk
DestinationTypes == {"GoogleContacts", "WebHelpDesk"}

\* the handle of the entry at place i of the directory: the href of its link
\* with rel = "self"
SelfLink(i) == "id" \o ToString(i)

\* destination records as GenerateChangeSet takes them: with an ID or
\* without one, changes not disabled
ComparableDestinationPersons ==
    { Person(cv, id, a, FALSE) :
        cv \in CompareValues, id \in {EmptyString, SelfLink(1)}, a \in DestinationAttributes }

\* what a directory holds of one record: its identity (the primary email, the
\* client's Email), its other attributes, and whether the entry has a link
\* with rel = "self" (a Google contact; a WebHelpDesk client has no links)
DestinationEntries(type, compareValues, attributes) ==
    compareValues \X attributes
                  \X (IF type = "WebHelpDesk" THEN {FALSE} ELSE BOOLEAN)

\* Attributes: map[string]string{"id": id, ...}
WithID(attributes, id) ==
    [k \in (DOMAIN attributes) \cup {"id"} |-> IF k = "id" THEN id ELSE attributes[k]]

\* extractPersonsFromResponse: ID and Attributes["id"] are the href of the
\* link with rel = "self", the empty string when the entry has none
GoogleContactsListing(entries) ==
    [i \in 1..Len(entries) |->
        LET selfLink == IF entries[i][3] THEN SelfLink(i) ELSE EmptyString
        IN  Person(entries[i][1], selfLink, WithID(entries[i][2], selfLink), FALSE)]

\* WebHelpDesk.ListUsers: Attributes["id"] is strconv.Itoa of the client's
\* ID, and the ID of the Person is not set
WebHelpDeskListing(entries) ==
    [i \in 1..Len(entries) |->
        Person(entries[i][1], EmptyString, WithID(entries[i][2], ToString(i)), FALSE)]

\* destination.ListUsers()
DestinationListing(type, entries) ==
    IF type = "WebHelpDesk"
    THEN WebHelpDeskListing(entries)
    ELSE GoogleContactsListing(entries)

-----------------------------------------------------------------------------
(* SpecDiff: GenerateChangeSet on every pair of lists within the bound,      *)
(* then the successful application of the whole change set, then             *)
(* GenerateChangeSet against the directory as it is then.                    *)

\* ApplyChangeSet is not running: the state of its variables in the
\* specifications that do not run it step by step
ApplyIdle ==
    /\ destinationType = "GoogleContacts"
    /\ config = [BatchSize |-> 0, BatchDelaySeconds |-> 0]
    /\ batchTimer = [BatchSize |-> 0, SecondsPerBatch |-> 0]
    /\ apc = "idle"
    /\ units = <<>>
    /\ wg = 0
    /\ eventLog = <<>>
    /\ logged = {}
    /\ consumer = FALSE

InitDiff ==
    /\ pc = "input"
    /\ attributeMap = <<>>
    /\ dryRun = FALSE
    /\ \E n \in 0..MaxPeople :
         \E m \in 0..(MaxPeople - n) :
           /\ sourcePeople \in [1..n -> ComparableSourcePersons]
           /\ destinationPeople \in [1..m -> ComparableDestinationPersons]
           /\ remote = destinationPeople
    /\ changeSet = EmptyChangeSet
    /\ results = ZeroResults
    /\ listErr = EmptyString
    /\ calls = [source |-> 0, destination |-> 0, apply |-> 0]
    /\ sourceDirectory = <<>>
    /\ ApplyIdle

\* changeSet := GenerateChangeSet(sourcePeople, destinationPeople)
Generate ==
    /\ pc = "input"
    /\ changeSet' = GenerateChangeSet(sourcePeople, destinationPeople)
    /\ pc' = "diffed"
    /\ UNCHANGED applyVars
    /\ UNCHANGED <<attributeMap, dryRun, sourcePeople, destinationPeople,
                   results, listErr, calls, sourceDirectory, remote>>

\* every change of the change set is applied to the directory successfully
ApplyAll ==
    /\ pc = "diffed"
    /\ remote' = ApplyToDirectory(remote, changeSet,
                                  DOMAIN changeSet.Create,
                                  DOMAIN changeSet.Update,
                                  DOMAIN changeSet.Delete)
    /\ pc' = "applied"
    /\ UNCHANGED applyVars
    /\ UNCHANGED <<attributeMap, dryRun, sourcePeople, destinationPeople,
                   changeSet, results, listErr, calls, sourceDirectory>>

\* changeSet := GenerateChangeSet(sourcePeople, destination'), destination'
\* being the directory after the changes
GenerateAgain ==
    /\ pc = "applied"
    /\ changeSet' = GenerateChangeSet(sourcePeople, remote)
    /\ pc' = "rediffed"
    /\ UNCHANGED applyVars
    /\ UNCHANGED <<attributeMap, dryRun, sourcePeople, destinationPeople,
                   results, listErr, calls, sourceDirectory, remote>>

NextDiff == Generate \/ ApplyAll \/ GenerateAgain

SpecDiff == InitDiff /\ [][NextDiff]_vars

-----------------------------------------------------------------------------
(* The steps of SyncPeople up to its call of ApplyChangeSet *)

\* attribute mappings under the source's keys
SourceAttributes ==
    { EmptyAttributes,
      [k \in {"s1"} |-> "x"],
      [k \in {"s1"} |-> "y"],
      [k \in {"s1", "s2"} |-> "x"],
      [k \in {"s1", "s2"} |-> IF k = "s1" THEN "y" ELSE "x"] }

\* a source listing: no ID, changes not disabled
SourceListing(entries) ==
    [i \in 1..Len(entries) |->
        Person(entries[i][1], EmptyString, entries[i][2], FALSE)]

\* the configured attribute maps
AttributeMapConfigs ==
    { <<>>,
      << AttributeMap("s1", "k1", TRUE, FALSE) >>,
      << AttributeMap("s1", "k1", FALSE, FALSE) >>,
      << AttributeMap("s1", "k1", FALSE, TRUE), AttributeMap("s2", "k2", TRUE, FALSE) >>,
      << AttributeMap("s1", "k1", TRUE, FALSE), AttributeMap("s2", "k2", FALSE, FALSE) >>,
      << AttributeMap("s2", "k1", FALSE, FALSE), AttributeMap("s1", "k1", FALSE, FALSE) >> }

\* err.Error() of a failed ListUsers
ListErrors == {"failed to retrieve user list"}

\* return ChangeResults{} without the error
ListFailureResults_ErrorDropped(err) == ZeroResults

\* return ChangeResults{Errors: []string{err.Error()}}
ListFailureResults(err) == ChangeResults(0, 0, 0, <<err>>)

\* the step after a ListUsers call, with the test of err missing
StepAfterList_ErrorIgnored(err, nextStep) == nextStep

\* if err != nil { return ChangeResults{...} } after either ListUsers call
StepAfterList(err, nextStep) == IF err # NoError THEN "Done" ELSE nextStep

\* sourcePeople, err := source.ListUsers(); if err != nil { return ... }
FetchSource ==
    /\ pc = "FetchingSource"
    /\ calls' = [calls EXCEPT !.source = @ + 1]
    /\ \/ /\ sourcePeople' = sourceDirectory
          /\ pc' = StepAfterList(NoError, "Projecting")
          /\ UNCHANGED <<results, listErr>>
       \/ \E err \in ListErrors :
             /\ listErr' = err
             /\ results' = ListFailureResults(err)
             /\ pc' = StepAfterList(err, "Projecting")
             /\ UNCHANGED sourcePeople
    /\ UNCHANGED applyVars
    /\ UNCHANGED <<attributeMap, dryRun, destinationPeople, changeSet,
                   sourceDirectory, remote>>

\* sourcePeople, err = RemapToDestinationAttributes(sourcePeople, attributeMap)
Project ==
    /\ pc = "Projecting"
    /\ LET remapped == RemapToDestinationAttributes(sourcePeople, attributeMap)
       IN  IF remapped.Err # NoError
           THEN /\ results' = ListFailureResults(remapped.Err)
                /\ pc' = "Done"
                /\ UNCHANGED sourcePeople
           ELSE /\ sourcePeople' = remapped.People
                /\ pc' = "FetchingDestination"
                /\ UNCHANGED results
    /\ UNCHANGED applyVars
    /\ UNCHANGED <<attributeMap, dryRun, destinationPeople, changeSet,
                   listErr, calls, sourceDirectory, remote>>

\* destinationPeople, err := destination.ListUsers(); if err != nil { return ... }
FetchDestination ==
    /\ pc = "FetchingDestination"
    /\ calls' = [calls EXCEPT !.destination = @ + 1]
    /\ \/ /\ destinationPeople' = remote
          /\ pc' = StepAfterList(NoError, "Diffing")
          /\ UNCHANGED <<results, listErr>>
       \/ \E err \in ListErrors :
             /\ listErr' = err
             /\ results' = ListFailureResults(err)
             /\ pc' = StepAfterList(err, "Diffing")
             /\ UNCHANGED destinationPeople
    /\ UNCHANGED applyVars
    /\ UNCHANGED <<attributeMap, dryRun, sourcePeople, changeSet,
                   sourceDirectory, remote>>

\* the branch taken after GenerateChangeSet, with the test of dryRun missing
StepAfterDiff_AlwaysApply(isDryRun) == "Applying"

\* if dryRun { ... return } ; return destination.ApplyChangeSet(changeSet)
StepAfterDiff(isDryRun) == IF isDryRun THEN "DryRunReporting" ELSE "Applying"

\* changeSet := GenerateChangeSet(sourcePeople, destinationPeople)
Diff ==
    /\ pc = "Diffing"
    /\ changeSet' = GenerateChangeSet(sourcePeople, destinationPeople)
    /\ pc' = StepAfterDiff(dryRun)
    /\ UNCHANGED applyVars
    /\ UNCHANGED <<attributeMap, dryRun, sourcePeople, destinationPeople,
                   results, listErr, calls, sourceDirectory, remote>>

\* the mocked change results of a dry run
DryRunResults(cs) ==
    ChangeResults(Len(cs.Create), Len(cs.Update), Len(cs.Delete), <<>>)

\* printChangeSet(changeSet); return ChangeResults{Created: ..., Updated: ..., Deleted: ...}
DryRunReport ==
    /\ pc = "DryRunReporting"
    /\ results' = DryRunResults(changeSet)
    /\ pc' = "Done"
    /\ UNCHANGED applyVars
    /\ UNCHANGED <<attributeMap, dryRun, sourcePeople, destinationPeople,
                   changeSet, listErr, calls, sourceDirectory, remote>>

\* updateContact and deleteContact address the contact by person.ID: the GET
\* of getContact(url) fails on an empty url
Addressable(people) == {i \in 1..Len(people) : people[i].ID # EmptyString}

-----------------------------------------------------------------------------
(* SpecApply: ApplyChangeSet of a destination adapter, goroutine by          *)
(* goroutine.  The adapter is built by its constructor, ApplyChangeSet       *)
(* builds its BatchTimer and starts one goroutine per change, calling        *)
(* WaitOnBatch after each go statement, then waits on the WaitGroup and       *)
(* returns the counters.  Each goroutine makes its request, sends on          *)
(* eventLog, adds to its counter and calls wg.Done.                           *)

\* SpecApply: the ChangeSet handed to ApplyChangeSet holds at most MaxChanges records
MaxChanges == 2

\* the eventLog channel buffers LogCapacity items (the test makes it with 50)
LogCapacity == 1

\* const DefaultBatchSizePerMinute
DefaultBatchSizePerMinute == 50

\* const DefaultListClientsPageLimit
DefaultListClientsPageLimit == 100

\* NewBatchTimer(w.BatchSizePerMinute, int(60))
WebHelpDeskSecondsPerBatch == 60

\* the default of GoogleContactsConfig.BatchSize
DefaultBatchSize == 10

\* the default of GoogleContactsConfig.BatchDelaySeconds
DefaultBatchDelaySeconds == 3

\* the batch sizes found in ExtraJSON: negative, absent (zero), and two small ones
ConfiguredBatchSizes == {-1, 0, 1, 2}

\* what json.Unmarshal leaves in the adapter's configuration
Configurations(type) ==
    IF type = "WebHelpDesk"
    THEN [BatchSizePerMinute : ConfiguredBatchSizes, ListClientsPageLimit : {0}]
    ELSE [BatchSize : ConfiguredBatchSizes, BatchDelaySeconds : {0, 1}]

\* the defaults of the WebHelpDesk constructor, with < for <= on the batch size
WebHelpDeskDefaults_ZeroKept(cfg) ==
    [BatchSizePerMinute   |-> IF cfg.BatchSizePerMinute < 0
                              THEN DefaultBatchSizePerMinute
                              ELSE cfg.BatchSizePerMinute,
     ListClientsPageLimit |-> IF cfg.ListClientsPageLimit = 0
                              THEN DefaultListClientsPageLimit
                              ELSE cfg.ListClientsPageLimit]

\* NewWebHelpDeskDesination: "Set defaults for batch size per minute and page limit"
WebHelpDeskDefaults(cfg) ==
    [BatchSizePerMinute   |-> IF cfg.BatchSizePerMinute <= 0
                              THEN DefaultBatchSizePerMinute
                              ELSE cfg.BatchSizePerMinute,
     ListClientsPageLimit |-> IF cfg.ListClientsPageLimit = 0
                              THEN DefaultListClientsPageLimit
                              ELSE cfg.ListClientsPageLimit]

\* NewGoogleContactsDestination: "Defaults"
GoogleContactsDefaults(cfg) ==
    [BatchSize         |-> IF cfg.BatchSize <= 0
                           THEN DefaultBatchSize
                           ELSE cfg.BatchSize,
     BatchDelaySeconds |-> IF cfg.BatchDelaySeconds <= 0
                           THEN DefaultBatchDelaySeconds
                           ELSE cfg.BatchDelaySeconds]

\* the arguments ApplyChangeSet passes to NewBatchTimer
BatchTimerArguments(type, cfg) ==
    IF type = "WebHelpDesk"
    THEN <<cfg.BatchSizePerMinute, WebHelpDeskSecondsPerBatch>>
    ELSE <<cfg.BatchSize, cfg.BatchDelaySeconds>>

\* batchTimer := personnel_sync.NewBatchTimer(batchSize, secondsPerBatch): the
\* timer is built from these two arguments.  NewBatchTimer and WaitOnBatch
\* are defined outside the files at hand; of the timer the model keeps what
\* ApplyChangeSet hands it.
NewBatchTimer(batchSize, secondsPerBatch) ==
    [BatchSize       |-> batchSize,
     SecondsPerBatch |-> secondsPerBatch]

\* the loops of ApplyChangeSet that call batchTimer.WaitOnBatch()
GatedKinds == {"create", "update", "delete"}

\* the lists of the ChangeSet ApplyChangeSet ranges over: "WHD API does not
\* support deactivating or deleting users"
DispatchedKinds(type) ==
    IF type = "WebHelpDesk"
    THEN {"create", "update"}
    ELSE {"create", "update", "delete"}

\* the changes of one list, tagged with the list
Tagged(kind, people) ==
    [i \in 1..Len(people) |-> [kind |-> kind, person |-> people[i]]]

\* the order of the go statements, were the third loop to range over
\* changes.Update like the second
Queue_DeleteRangesUpdate(type, changes) ==
    Tagged("create", changes.Create)
    \o Tagged("update", changes.Update)
    \o (IF type = "WebHelpDesk" THEN <<>> ELSE Tagged("delete", changes.Update))

\* the changes in the order ApplyChangeSet starts their goroutines
Queue(type, changes) ==
    (IF "create" \in DispatchedKinds(type) THEN Tagged("create", changes.Create) ELSE <<>>)
    \o (IF "update" \in DispatchedKinds(type) THEN Tagged("update", changes.Update) ELSE <<>>)
    \o (IF "delete" \in DispatchedKinds(type) THEN Tagged("delete", changes.Delete) ELSE <<>>)

\* the counter every goroutine is handed, were it &results.Created in all three loops
CounterOf_AlwaysCreated(kind) == "Created"

\* the counter the goroutine is handed: &results.Created, &results.Updated, &results.Deleted
CounterOf(kind) ==
    CASE kind = "create" -> "Created"
      [] kind = "update" -> "Updated"
      [] kind = "delete" -> "Deleted"

\* atomic.AddUint64(counter, 1), one step; the counter stays far below 2^64,
\* it is added to once per change at most
AddUint64(res, field) == [res EXCEPT ![field] = @ + 1]

NoEvent == EmptyString

\* the Event of the item a goroutine sends after its request succeeded
SuccessEvent(type, kind) ==
    CASE type = "GoogleContacts" /\ kind = "create" -> "AddContact"
      [] type = "GoogleContacts" /\ kind = "update" -> NoEvent
      [] type = "GoogleContacts" /\ kind = "delete" -> NoEvent
      [] type = "WebHelpDesk" /\ kind = "create" -> "CreateUser"
      [] type = "WebHelpDesk" /\ kind = "update" -> "UpdateUser"
      [] OTHER -> NoEvent

\* the first step of the goroutine: updateContact and deleteContact GET the
\* contact at person.ID (getContact) before their PUT or DELETE
FirstStep(type, kind) ==
    IF type = "GoogleContacts" /\ kind \in {"update", "delete"}
    THEN "get"
    ELSE "request"

\* strconv.Atoi(s) returns no error: s is a decimal number (the numbers of the
\* model are written without sign or leading zero and have one digit)
IsNumber(s) == \E n \in 0..9 : s = ToString(n)

\* getWebHelpDeskClientFromPerson returns no error: "if id attribute isn't
\* present, default to a zero", else it must convert to an int
Convertible(person) ==
    "id" \in DOMAIN person.Attributes => IsNumber(person.Attributes["id"])

\* the Message of the "error" item a goroutine sends, up to its arguments
GetFailed == "failed retrieving contact"
ConvertFailed(kind) ==
    IF kind = "create"
    THEN "unable to create user, unable to convert string to int"
    ELSE "unable to update user, unable to convert string to int"
RequestFailed(type, kind) ==
    CASE type = "GoogleContacts" /\ kind = "create" -> "unable to insert in Google contacts"
      [] type = "GoogleContacts" /\ kind = "update" -> "updateUser failed updating user"
      [] type = "GoogleContacts" /\ kind = "delete" -> "deleteUser failed deleting user"
      [] type = "WebHelpDesk" /\ kind = "create" -> "unable to create user, error calling api"
      [] OTHER -> "unable to update user, error calling api"

\* the directory after the request of one change succeeded
ApplyChange(directory, change) ==
    CASE change.kind = "create" ->
           ApplyToDirectory(directory, ChangeSet(<<change.person>>, <<>>, <<>>), {1}, {}, {})
      [] change.kind = "update" ->
           ApplyToDirectory(directory, ChangeSet(<<>>, <<change.person>>, <<>>), {}, {1}, {})
      [] OTHER ->
           ApplyToDirectory(directory, ChangeSet(<<>>, <<>>, <<change.person>>), {}, {}, {1})

\* wg.Wait() returns at once, whatever the counter
WaitGroupIsZero_NoWait(counter) == TRUE

\* wg.Wait() returns when the counter of the WaitGroup is zero
WaitGroupIsZero(counter) == counter = 0

\* a record to create, and records to update or delete: one with the ID the
\* destination listed, one without an ID, and one without an ID whose
\* attribute "id" is no number
NewPerson == Person(<<97>>, EmptyString, [k \in {"k1"} |-> "x"], FALSE)
ListedPerson == Person(<<98>>, SelfLink(1), [k \in {"k1"} |-> "x"], FALSE)
UnlistedPerson == Person(<<98>>, EmptyString, [k \in {"k1"} |-> "y"], FALSE)
MisnumberedPerson == Person(<<98>>, EmptyString, [k \in {"id"} |-> "x"], FALSE)

\* the change sets of at most max records, the records to update taken from updated
ChangeSetsOf(max, updated) ==
    UNION { UNION { UNION {
        { ChangeSet(c, u, d) :
            c \in [1..nc -> {NewPerson}],
            u \in [1..nu -> updated],
            d \in [1..nd -> {ListedPerson}] }
        : nd \in 0..(max - nc - nu) }
        : nu \in 0..(max - nc) }
        : nc \in 0..max }

\* the records to update that the goroutines of an adapter tell apart:
\* updateContact those with and without an ID to GET, UpdateUser (WebHelpDesk
\* lists no ID) those whose attribute "id" converts and does not
UpdatedPersons(type) ==
    IF type = "WebHelpDesk"
    THEN {UnlistedPerson, MisnumberedPerson}
    ELSE {ListedPerson, UnlistedPerson}

\* the change sets handed to ApplyChangeSet
ChangeSets(type) == ChangeSetsOf(MaxChanges, UpdatedPersons(type))

\* the caller stands at its call of ApplyChangeSet, nothing of SyncPeople ran
SyncIdle ==
    /\ pc = "Applying"
    /\ attributeMap = <<>>
    /\ dryRun = FALSE
    /\ sourcePeople = <<>>
    /\ destinationPeople = <<>>
    /\ listErr = NoError
    /\ calls = [source |-> 0, destination |-> 0, apply |-> 0]
    /\ sourceDirectory = <<>>
    /\ remote = <<>>

\* the adapter before its constructor ran, ApplyChangeSet not yet called
InitAdapter ==
    /\ SyncIdle
    /\ results = ZeroResults
    /\ destinationType \in DestinationTypes
    /\ config \in Configurations(destinationType)
    /\ batchTimer = [BatchSize |-> 0, SecondsPerBatch |-> 0]
    /\ apc = "new"
    /\ units = <<>>
    /\ wg = 0
    /\ eventLog = <<>>
    /\ logged = {}

InitApply ==
    /\ InitAdapter
    /\ changeSet \in ChangeSets(destinationType)
    /\ consumer \in BOOLEAN

\* how a constructor ends: NewGoogleContactsDestination returns an error when
\* destinationConfig.Type is not its own, when json.Unmarshal fails and when
\* initGoogleClient fails; NewWebHelpDeskDesination when json.Unmarshal fails
ConstructorOutcomes(type) ==
    IF type = "WebHelpDesk"
    THEN {"ok", "unmarshal error"}
    ELSE {"ok", "wrong type", "unmarshal error", "client error"}

\* return nil, fmt.Errorf("invalid config type: ...")
NilAdapter == [nil |-> TRUE]

\* return &GoogleContacts{}, err
ZeroGoogleContacts == [BatchSize |-> 0, BatchDelaySeconds |-> 0]

\* the adapter the constructor returns: with its defaults when it returns no
\* error; with an error, WebHelpDesk as json.Unmarshal left it, GoogleContacts
\* nil or the zero value
Constructed(type, cfg, outcome) ==
    CASE type = "WebHelpDesk" /\ outcome = "ok" -> WebHelpDeskDefaults(cfg)
      [] type = "WebHelpDesk" /\ outcome # "ok" -> cfg
      [] type = "GoogleContacts" /\ outcome = "ok" -> GoogleContactsDefaults(cfg)
      [] type = "GoogleContacts" /\ outcome = "wrong type" -> NilAdapter
      [] OTHER -> ZeroGoogleContacts

\* NewGoogleContactsDestination / NewWebHelpDeskDesination.  What the caller
\* does with an adapter returned beside an error is not in the sources: the
\* adapter is not used.
NewDestination ==
    /\ apc = "new"
    /\ \E outcome \in ConstructorOutcomes(destinationType) :
         /\ config' = Constructed(destinationType, config, outcome)
         /\ apc' = IF outcome = "ok" THEN "constructed" ELSE "failed"
    /\ UNCHANGED syncVars
    /\ UNCHANGED <<destinationType, batchTimer, units, wg, eventLog,
                   logged, consumer>>

\* ApplyChangeSet: var results; var wg; batchTimer := NewBatchTimer(...)
StartApply ==
    /\ pc = "Applying"
    /\ apc = "constructed"
    /\ calls' = [calls EXCEPT !.apply = @ + 1]
    /\ results' = ZeroResults
    /\ LET args == BatchTimerArguments(destinationType, config)
       IN  batchTimer' = NewBatchTimer(args[1], args[2])
    /\ apc' = "dispatch"
    /\ UNCHANGED <<pc, attributeMap, dryRun, sourcePeople, destinationPeople,
                   changeSet, listErr, sourceDirectory, remote>>
    /\ UNCHANGED <<destinationType, config, units, wg, eventLog,
                   logged, consumer>>

\* wg.Add(1); go g.addContact(...) / updateContact / deleteContact
\* (go w.CreateUser / w.UpdateUser)
Dispatch ==
    /\ apc = "dispatch"
    /\ Len(units) < Len(Queue(destinationType, changeSet))
    /\ LET change == Queue(destinationType, changeSet)[Len(units) + 1]
       IN  /\ units' = Append(units, [st        |-> FirstStep(destinationType, change.kind),
                                      ok        |-> FALSE,
                                      confirmed |-> FALSE,
                                      message   |-> EmptyString])
           /\ apc' = IF change.kind \in GatedKinds THEN "gate" ELSE "dispatch"
    /\ wg' = wg + 1
    /\ UNCHANGED syncVars
    /\ UNCHANGED <<destinationType, config, batchTimer, eventLog,
                   logged, consumer>>

\* batchTimer.WaitOnBatch(): the call returns, and the loop goes on to its
\* next go statement.  How long the call stalls is decided in WaitOnBatch,
\* which is not among the files at hand: the goroutines started so far take
\* any number of their steps before it returns.
WaitOnBatch ==
    /\ apc = "gate"
    /\ apc' = "dispatch"
    /\ UNCHANGED syncVars
    /\ UNCHANGED <<destinationType, config, batchTimer, units, wg, eventLog,
                   logged, consumer>>

\* wg.Wait(); return results (to SyncPeople, which returns them)
Return ==
    /\ apc = "dispatch"
    /\ Len(units) = Len(Queue(destinationType, changeSet))
    /\ WaitGroupIsZero(wg)
    /\ apc' = "returned"
    /\ pc' = "Done"
    /\ UNCHANGED <<attributeMap, dryRun, sourcePeople, destinationPeople,
                   changeSet, results, listErr, calls, sourceDirectory, remote>>
    /\ UNCHANGED <<destinationType, config, batchTimer, units, wg,
                   eventLog, logged, consumer>>

\* contact, err := g.getContact(url), url being person.ID: the GET and the
\* parse of its answer succeed, or the goroutine goes to send the error
GetContact(i) ==
    /\ units[i].st = "get"
    /\ LET change == Queue(destinationType, changeSet)[i]
       IN  \E ok \in BOOLEAN :
             /\ ok => Addressable(<<change.person>>) # {}
             /\ units' = [units EXCEPT
                    ![i].st = IF ok THEN "request" ELSE "send",
                    ![i].message = IF ok THEN EmptyString ELSE GetFailed]
    /\ UNCHANGED syncVars
    /\ UNCHANGED <<destinationType, config, batchTimer, apc, wg,
                   eventLog, logged, consumer>>

\* the step of the goroutine after its request
AfterRequest(type, kind, ok) ==
    IF ~ok \/ SuccessEvent(type, kind) # NoEvent THEN "send" ELSE "count"

\* what one request can come to: ok is whether the helper returned err == nil,
\* changed whether the server carried the change out.  g.httpRequest returns
\* an error when client.Do or ioutil.ReadAll fails or when resp.StatusCode >=
\* 400; w.makeHttpRequest returns an error when client.Do or ioutil.ReadAll
\* fails and never reads resp.StatusCode, so an answer that refuses the change
\* is returned without error.  An error of client.Do or of ioutil.ReadAll can
\* come after the server made the change.
RequestOutcomes(type) ==
    {o \in [ok : BOOLEAN, changed : BOOLEAN] :
        (o.ok /\ ~o.changed) => type = "WebHelpDesk"}

\* the one request that changes the directory: g.httpRequest POST, PUT or
\* DELETE; w.makeHttpRequest POST or PUT, made only when
\* getWebHelpDeskClientFromPerson returned no error.  The goroutine goes on
\* with what the helper returned, the directory with what the server did.
Request(i) ==
    /\ units[i].st = "request"
    /\ LET change == Queue(destinationType, changeSet)[i]
       IN  IF destinationType = "WebHelpDesk" /\ ~Convertible(change.person)
           THEN /\ units' = [units EXCEPT
                       ![i].st = AfterRequest(destinationType, change.kind, FALSE),
                       ![i].message = ConvertFailed(change.kind)]
                /\ UNCHANGED remote
           ELSE \E o \in RequestOutcomes(destinationType) :
                  /\ units' = [units EXCEPT
                         ![i].ok = o.ok,
                         ![i].confirmed = o.ok /\ o.changed,
                         ![i].st = AfterRequest(destinationType, change.kind, o.ok),
                         ![i].message = IF o.ok THEN EmptyString
                                        ELSE RequestFailed(destinationType, change.kind)]
                  /\ remote' = IF o.changed THEN ApplyChange(remote, change)
                                ELSE remote
    /\ UNCHANGED <<pc, attributeMap, dryRun, sourcePeople, destinationPeople,
                   changeSet, results, listErr, calls, sourceDirectory>>
    /\ UNCHANGED <<destinationType, config, batchTimer, apc, wg,
                   eventLog, logged, consumer>>

\* after the send of an error: return; after the send of a success: go on to
\* atomic.AddUint64
AfterSend(ok) == IF ok THEN "count" ELSE "done"

\* eventLog <- EventLogItem{...}: the send waits for room in the buffer
Send(i) ==
    /\ units[i].st = "send"
    /\ Len(eventLog) < LogCapacity
    /\ LET change == Queue(destinationType, changeSet)[i]
           event  == IF units[i].ok
                     THEN SuccessEvent(destinationType, change.kind)
                     ELSE "error"
           message == IF units[i].ok
                      THEN change.person.CompareValue
                      ELSE units[i].message
       IN  /\ eventLog' = Append(eventLog, [Event |-> event, Message |-> message])
           /\ logged' = logged \cup {<<i, event>>}
    /\ units' = [units EXCEPT ![i].st = AfterSend(units[i].ok)]
    /\ UNCHANGED syncVars
    /\ UNCHANGED <<destinationType, config, batchTimer, apc, wg, consumer>>

\* atomic.AddUint64(counter, 1)
Count(i) ==
    /\ units[i].st = "count"
    /\ LET change == Queue(destinationType, changeSet)[i]
       IN  results' = AddUint64(results, CounterOf(change.kind))
    /\ units' = [units EXCEPT ![i].st = "done"]
    /\ UNCHANGED <<pc, attributeMap, dryRun, sourcePeople, destinationPeople,
                   changeSet, listErr, calls, sourceDirectory, remote>>
    /\ UNCHANGED <<destinationType, config, batchTimer, apc, wg,
                   eventLog, logged, consumer>>

\* defer wg.Done()
Done(i) ==
    /\ units[i].st = "done"
    /\ wg' = wg - 1
    /\ units' = [units EXCEPT ![i].st = "finished"]
    /\ UNCHANGED syncVars
    /\ UNCHANGED <<destinationType, config, batchTimer, apc, eventLog,
                   logged, consumer>>

\* the goroutine that reads eventLog, when there is one, receives an item
Receive ==
    /\ consumer
    /\ eventLog # <<>>
    /\ eventLog' = Tail(eventLog)
    /\ UNCHANGED syncVars
    /\ UNCHANGED <<destinationType, config, batchTimer, apc, units, wg,
                   logged, consumer>>

\* one step of one of the goroutines ApplyChangeSet started
UnitStep ==
    \E i \in 1..Len(units) : GetContact(i) \/ Request(i) \/ Send(i) \/ Count(i) \/ Done(i)

NextApply ==
    \/ NewDestination
    \/ StartApply
    \/ Dispatch
    \/ WaitOnBatch
    \/ Return
    \/ UnitStep
    \/ Receive

SpecApply == InitApply /\ [][NextApply]_vars

-----------------------------------------------------------------------------
(* SyncPeople with a destination adapter whose constructor returned no       *)
(* error.  SpecPlan: the run up to its call of ApplyChangeSet (a dry run to  *)
(* its end), on every listing and attribute map within the bounds.  Spec:    *)
(* the whole run, ApplyChangeSet goroutine by goroutine as in SpecApply, on  *)
(* the listings of two identities with one attribute.                        *)

\* the configuration json.Unmarshal leaves when ExtraJSON names no batch size
UnsetConfiguration(type) ==
    IF type = "WebHelpDesk"
    THEN [BatchSizePerMinute |-> 0, ListClientsPageLimit |-> 0]
    ELSE [BatchSize |-> 0, BatchDelaySeconds |-> 0]

\* SyncPeople is called with dryRun, a source of the listings of
\* sourceEntries, a destination of the listings of destinationAttributes
\* under compareValues, and one of attrMaps
InitSync(attrMaps, compareValues, sourceAttributes, destinationAttributes) ==
    /\ pc = "FetchingSource"
    /\ attributeMap \in attrMaps
    /\ dryRun \in BOOLEAN
    /\ destinationType \in DestinationTypes
    /\ \E n \in 0..MaxFetched :
         \E m \in 0..(MaxFetched - n) :
           /\ \E entries \in [1..n -> compareValues \X sourceAttributes] :
                sourceDirectory = SourceListing(entries)
           /\ \E entries \in [1..m -> DestinationEntries(destinationType, compareValues,
                                                          destinationAttributes)] :
                remote = DestinationListing(destinationType, entries)
    /\ sourcePeople = <<>>
    /\ destinationPeople = <<>>
    /\ changeSet = EmptyChangeSet
    /\ results = ZeroResults
    /\ listErr = NoError
    /\ calls = [source |-> 0, destination |-> 0, apply |-> 0]
    /\ config = Constructed(destinationType, UnsetConfiguration(destinationType), "ok")
    /\ batchTimer = [BatchSize |-> 0, SecondsPerBatch |-> 0]
    /\ apc = "constructed"
    /\ units = <<>>
    /\ wg = 0
    /\ eventLog = <<>>
    /\ logged = {}

InitPlan ==
    /\ InitSync(AttributeMapConfigs, CompareValues, SourceAttributes, DestinationAttributes)
    /\ consumer = FALSE

NextPlan == FetchSource \/ Project \/ FetchDestination \/ Diff \/ DryRunReport

SpecPlan == InitPlan /\ [][NextPlan]_vars

\* the inputs of Spec: two identities, one source attribute mapped to one
\* destination attribute
RunCompareValues == { <<97>>, <<98>> }
RunSourceAttributes == { [k \in {"s1"} |-> "x"] }
RunDestinationAttributes == { [k \in {"k1"} |-> "x"] }
RunAttributeMapConfigs == { << AttributeMap("s1", "k1", FALSE, FALSE) >> }

Init ==
    /\ InitSync(RunAttributeMapConfigs, RunCompareValues, RunSourceAttributes,
                RunDestinationAttributes)
    /\ consumer \in BOOLEAN

Next ==
    \/ FetchSource
    \/ Project
    \/ FetchDestination
    \/ Diff
    \/ DryRunReport
    \/ StartApply
    \/ Dispatch
    \/ WaitOnBatch
    \/ Return
    \/ UnitStep
    \/ Receive

Spec == Init /\ [][Next]_vars

-----------------------------------------------------------------------------
(* Vocabulary of the properties *)

Range(list) == {list[i] : i \in 1..Len(list)}

\* two compareKeys name the same identity
SameIdentity(a, b) == ToLower(a) = ToLower(b)

\* the identities of a list
Identities(list) == {ToLower(p.CompareValue) : p \in Range(list)}

\* no identity occurs twice in the list
UniqueIdentities(list) ==
    \A i, j \in 1..Len(list) :
        i # j => ~SameIdentity(list[i].CompareValue, list[j].CompareValue)

\* j is the place of the first record of the list with the identity of compareValue
IsFirstMatch(j, compareValue, list) ==
    /\ j \in 1..Len(list)
    /\ SameIdentity(list[j].CompareValue, compareValue)
    /\ \A k \in 1..(j - 1) : ~SameIdentity(list[k].CompareValue, compareValue)

\* the records of the three lists of a change set
Changed(cs) == Range(cs.Create) \cup Range(cs.Update) \cup Range(cs.Delete)

\* the keys on which two attribute mappings with the same key set differ
DifferingKeys(a, b) == {k \in DOMAIN a : a[k] # b[k]}

-----------------------------------------------------------------------------
(* Properties of GenerateChangeSet, checked under SpecDiff *)

\* C1: no compareKey, compared case-insensitively, is in more than one of the
\* lists Create, Update and Delete of the change set GenerateChangeSet
\* returns, whatever the two lists are (duplicates, other spellings and
\* records with changes disabled included).
C1_ListsShareNoIdentity ==
    pc = "diffed" =>
        /\ Identities(changeSet.Create) \cap Identities(changeSet.Update) = {}
        /\ Identities(changeSet.Create) \cap Identities(changeSet.Delete) = {}
        /\ Identities(changeSet.Update) \cap Identities(changeSet.Delete) = {}

\* two of the lists are filled, from a source that spells an identity of the
\* destination differently
C1_Witness ==
    /\ pc = "diffed"
    /\ changeSet.Create # <<>>
    /\ changeSet.Update # <<>>
    /\ \E s \in Range(sourcePeople), d \in Range(destinationPeople) :
          /\ s.CompareValue # d.CompareValue
          /\ SameIdentity(s.CompareValue, d.CompareValue)
          /\ s \in Range(changeSet.Update)

\* C2: when the two lists share no compareKey (case-insensitively), Create is
\* the source list without its changesDisabled records, Delete is the whole
\* destination list and Update is empty.
C2_DisjointLists ==
    (pc = "diffed" /\ Identities(sourcePeople) \cap Identities(destinationPeople) = {}) =>
        /\ changeSet.Create = SelectSeq(sourcePeople, LAMBDA p : ~p.DisableChanges)
        /\ changeSet.Delete = destinationPeople
        /\ changeSet.Update = <<>>

C2_Witness ==
    /\ pc = "diffed"
    /\ Identities(sourcePeople) \cap Identities(destinationPeople) = {}
    /\ \E s \in Range(sourcePeople) : s.DisableChanges
    /\ changeSet.Create # <<>>
    /\ changeSet.Delete # <<>>

\* C3: a source record whose compareKey is in the destination list with an
\* identical attributes mapping (the first destination record of that
\* identity has the same keys and values) is in none of Create, Update and
\* Delete, and neither is that destination record.
C3_IdenticalUntouched ==
    pc = "diffed" =>
        \A i \in 1..Len(sourcePeople), j \in 1..Len(destinationPeople) :
            ( /\ IsFirstMatch(j, sourcePeople[i].CompareValue, destinationPeople)
              /\ sourcePeople[i].Attributes = destinationPeople[j].Attributes )
            => /\ sourcePeople[i] \notin Changed(changeSet)
               /\ destinationPeople[j] \notin Changed(changeSet)

\* an identical pair with non-empty attributes, spelled differently, beside a
\* record that is changed
C3_Witness ==
    /\ pc = "diffed"
    /\ Changed(changeSet) # {}
    /\ \E i \in 1..Len(sourcePeople), j \in 1..Len(destinationPeople) :
          /\ IsFirstMatch(j, sourcePeople[i].CompareValue, destinationPeople)
          /\ sourcePeople[i].Attributes = destinationPeople[j].Attributes
          /\ DOMAIN sourcePeople[i].Attributes # {}
          /\ sourcePeople[i].CompareValue # destinationPeople[j].CompareValue
          /\ ~sourcePeople[i].DisableChanges

\* C4: a source record with changes enabled that differs from the destination
\* record it matches in exactly one attribute value (the record that results
\* from changing one value on a record identical to its match) is in Update,
\* and in neither Create nor Delete.
C4_OneValueChanged ==
    pc = "diffed" =>
        \A i \in 1..Len(sourcePeople), j \in 1..Len(destinationPeople) :
            ( /\ ~sourcePeople[i].DisableChanges
              /\ IsFirstMatch(j, sourcePeople[i].CompareValue, destinationPeople)
              /\ DOMAIN sourcePeople[i].Attributes = DOMAIN destinationPeople[j].Attributes
              /\ Cardinality(DifferingKeys(sourcePeople[i].Attributes,
                                           destinationPeople[j].Attributes)) = 1 )
            => /\ sourcePeople[i] \in Range(changeSet.Update)
               /\ sourcePeople[i] \notin Range(changeSet.Create)
               /\ sourcePeople[i] \notin Range(changeSet.Delete)

C4_Witness ==
    /\ pc = "diffed"
    /\ \E i \in 1..Len(sourcePeople), j \in 1..Len(destinationPeople) :
          /\ ~sourcePeople[i].DisableChanges
          /\ IsFirstMatch(j, sourcePeople[i].CompareValue, destinationPeople)
          /\ DOMAIN sourcePeople[i].Attributes = DOMAIN destinationPeople[j].Attributes
          /\ Cardinality(DifferingKeys(sourcePeople[i].Attributes,
                                       destinationPeople[j].Attributes)) = 1
          /\ changeSet.Update = <<sourcePeople[i]>>

\* C5: a source record and a destination record whose compareKeys differ only
\* in letter case are one identity: the source record is not in Create and
\* the destination record is not in Delete.
C5_CaseInsensitiveIdentity ==
    pc = "diffed" =>
        \A s \in Range(sourcePeople), d \in Range(destinationPeople) :
            ( /\ s.CompareValue # d.CompareValue
              /\ SameIdentity(s.CompareValue, d.CompareValue) )
            => /\ s \notin Range(changeSet.Create)
               /\ d \notin Range(changeSet.Delete)

\* the only spelling of the identity on either side is the other side's in
\* another case
C5_Witness ==
    /\ pc = "diffed"
    /\ \E s \in Range(sourcePeople), d \in Range(destinationPeople) :
          /\ s.CompareValue # d.CompareValue
          /\ SameIdentity(s.CompareValue, d.CompareValue)
          /\ ~s.DisableChanges
          /\ \A t \in Range(sourcePeople) : t.CompareValue # d.CompareValue
          /\ \A e \in Range(destinationPeople) : e.CompareValue # s.CompareValue

\* C7: the attributes are compared for equality, not for inclusion: a source
\* record with changes enabled whose matched destination record has a key the
\* source record lacks is in Update, also when every shared key has the same
\* value on both sides.
C7_ExtraDestinationKey ==
    pc = "diffed" =>
        \A i \in 1..Len(sourcePeople), j \in 1..Len(destinationPeople) :
            LET sa == sourcePeople[i].Attributes
                da == destinationPeople[j].Attributes
            IN  ( /\ ~sourcePeople[i].DisableChanges
                  /\ IsFirstMatch(j, sourcePeople[i].CompareValue, destinationPeople)
                  /\ (DOMAIN da) \ (DOMAIN sa) # {}
                  /\ \A k \in (DOMAIN sa) \cap (DOMAIN da) : sa[k] = da[k] )
                => sourcePeople[i] \in Range(changeSet.Update)

\* the source record's keys are all in the destination record, with the same
\* values, and the destination record has one more
C7_Witness ==
    /\ pc = "diffed"
    /\ \E i \in 1..Len(sourcePeople), j \in 1..Len(destinationPeople) :
          LET sa == sourcePeople[i].Attributes
              da == destinationPeople[j].Attributes
          IN  /\ ~sourcePeople[i].DisableChanges
              /\ IsFirstMatch(j, sourcePeople[i].CompareValue, destinationPeople)
              /\ DOMAIN sa # {}
              /\ (DOMAIN sa) \subseteq (DOMAIN da)
              /\ (DOMAIN da) \ (DOMAIN sa) # {}
              /\ \A k \in DOMAIN sa : sa[k] = da[k]
              /\ sourcePeople[i] \in Range(changeSet.Update)

\* the destination list holds, for every identity of the source list, the
\* same attributes, and no other identity
DestinationMatchesSource ==
    /\ Identities(sourcePeople) = Identities(destinationPeople)
    /\ \A s \in Range(sourcePeople), d \in Range(destinationPeople) :
          SameIdentity(s.CompareValue, d.CompareValue) => s.Attributes = d.Attributes

\* C8: for lists with unique compareKeys, once every change of
\* GenerateChangeSet(source, destination) is applied successfully,
\* GenerateChangeSet(source, destination') is empty in all three lists; and a
\* destination that already matches the source yields an empty change set.
C8_Converges ==
    (UniqueIdentities(sourcePeople) /\ UniqueIdentities(destinationPeople)) =>
        /\ pc = "rediffed" => changeSet = EmptyChangeSet
        /\ (pc = "diffed" /\ DestinationMatchesSource) => changeSet = EmptyChangeSet

\* a create, an update or a delete was applied, the directory changed, and
\* the second change set is computed
C8_Witness ==
    /\ pc = "rediffed"
    /\ UniqueIdentities(sourcePeople)
    /\ UniqueIdentities(destinationPeople)
    /\ Len(sourcePeople) = 2
    /\ remote # destinationPeople
    /\ Len(remote) = Len(destinationPeople)
    /\ \E s \in Range(sourcePeople), d \in Range(destinationPeople) :
          /\ SameIdentity(s.CompareValue, d.CompareValue)
          /\ s.CompareValue # d.CompareValue
          /\ s.Attributes # d.Attributes
          /\ ~s.DisableChanges

-----------------------------------------------------------------------------
(* Properties of SyncPeople, checked under SpecPlan (C6) and Spec (C9, C10) *)

\* GenerateChangeSet has run in this run of SyncPeople
Diffed ==
    \/ pc \in {"DryRunReporting", "Applying"}
    \/ pc = "Done" /\ listErr = NoError

\* the person lacks the source attribute of a required entry of the attribute map
MissesRequired(person, attrMaps) ==
    \E k \in 1..Len(attrMaps) :
        /\ attrMaps[k].Required
        /\ attrMaps[k].Source \notin DOMAIN person.Attributes

\* C6: a source record that lacks the source attribute of a required mapping
\* entry is, after RemapToDestinationAttributes and GenerateChangeSet, in
\* neither Create nor Update, whether or not the destination has it, and no
\* destination record with its compareKey is in Delete.
C6_MissingRequiredUntouched ==
    Diffed =>
        \A i \in 1..Len(sourceDirectory) :
            MissesRequired(sourceDirectory[i], attributeMap) =>
                /\ sourcePeople[i] \notin Range(changeSet.Create)
                /\ sourcePeople[i] \notin Range(changeSet.Update)
                /\ \A d \in Range(destinationPeople) :
                      SameIdentity(d.CompareValue, sourceDirectory[i].CompareValue)
                          => d \notin Range(changeSet.Delete)

\* the record lacks a required attribute, the destination has its identity
\* under another spelling and with other attributes, and nothing is changed
C6_Witness ==
    /\ pc = "Applying"
    /\ \E i \in 1..Len(sourceDirectory), d \in Range(destinationPeople) :
          /\ MissesRequired(sourceDirectory[i], attributeMap)
          /\ DOMAIN sourcePeople[i].Attributes # {}
          /\ SameIdentity(d.CompareValue, sourceDirectory[i].CompareValue)
          /\ d.CompareValue # sourceDirectory[i].CompareValue
          /\ d.Attributes # sourcePeople[i].Attributes
    /\ changeSet = EmptyChangeSet

\* C9: a run with dryRun true in which both listings succeed never invokes
\* ApplyChangeSet (the destination directory is as it was listed), and the
\* counters returned are the lengths of Create, Update and Delete of the
\* change set computed.
C9_DryRunOnlyCounts ==
    (pc = "Done" /\ dryRun /\ listErr = NoError) =>
        /\ calls.apply = 0
        /\ remote = destinationPeople
        /\ results.Created = Len(changeSet.Create)
        /\ results.Updated = Len(changeSet.Update)
        /\ results.Deleted = Len(changeSet.Delete)
        /\ results.Errors = <<>>

C9_Witness ==
    /\ pc = "Done"
    /\ dryRun
    /\ listErr = NoError
    /\ calls.source = 1
    /\ calls.destination = 1
    /\ results.Created = 1
    /\ results.Deleted = 1

\* C10: when the source listing or the destination listing fails, the
\* ChangeResults returned holds that failure in its error list and zero in
\* Created, Updated and Deleted, no change set was computed and
\* ApplyChangeSet was not invoked, in dry-run and in normal mode alike.
C10_ListFailureIsFatal ==
    (pc = "Done" /\ listErr # NoError) =>
        /\ \E k \in 1..Len(results.Errors) : results.Errors[k] = listErr
        /\ results.Created = 0
        /\ results.Updated = 0
        /\ results.Deleted = 0
        /\ changeSet = EmptyChangeSet
        /\ calls.apply = 0

\* the destination listing fails in normal mode, after a source listing that
\* a diff would have turned into changes
C10_Witness ==
    /\ pc = "Done"
    /\ listErr # NoError
    /\ ~dryRun
    /\ calls.destination = 1
    /\ sourcePeople # <<>>
    /\ remote # <<>>
    /\ \E p \in Range(sourcePeople) : ~p.DisableChanges

-----------------------------------------------------------------------------
(* Claims on the order of a run of SyncPeople (specification Spec) *)

\* the steps a run may take from one position to the next
RunOrder ==
    { <<"FetchingSource", "Projecting">>,
      <<"FetchingSource", "Done">>,
      <<"Projecting", "FetchingDestination">>,
      <<"FetchingDestination", "Diffing">>,
      <<"FetchingDestination", "Done">>,
      <<"Diffing", "DryRunReporting">>,
      <<"Diffing", "Applying">>,
      <<"DryRunReporting", "Done">>,
      <<"Applying", "Done">> }

\* C11: every step of a run of SyncPeople follows the order fetch source,
\* project, fetch destination, diff, then exactly one of dry-run report or
\* apply, then done.  destination.ListUsers is invoked only after
\* source.ListUsers was invoked and succeeded, ApplyChangeSet only from the
\* position the diff leads to and after both listings succeeded, each of the
\* three is invoked at most once, and the step on which a listing fails leads
\* straight to done.
C11_RunOrder ==
    [][ /\ pc' # pc => <<pc, pc'>> \in RunOrder
        /\ calls'.source <= 1
        /\ calls'.destination <= 1
        /\ calls'.apply <= 1
        /\ calls'.source # calls.source => pc = "FetchingSource"
        /\ calls'.destination # calls.destination =>
              /\ pc = "FetchingDestination"
              /\ calls.source = 1
              /\ listErr = NoError
        /\ calls'.apply # calls.apply =>
              /\ pc = "Applying"
              /\ calls.source = 1
              /\ calls.destination = 1
              /\ listErr = NoError
              /\ changeSet = GenerateChangeSet(sourcePeople, destinationPeople)
        /\ (pc = "DryRunReporting" \/ pc' = "DryRunReporting") => calls'.apply = 0
        /\ listErr' # listErr => pc' = "Done"
      ]_vars

\* a run that fetched both listings, diffed them and applied a change set
\* that is not empty
C11_Witness ==
    /\ pc = "Done"
    /\ calls = [source |-> 1, destination |-> 1, apply |-> 1]
    /\ listErr = NoError
    /\ changeSet # EmptyChangeSet

-----------------------------------------------------------------------------
(* Claims on the BatchTimer of ApplyChangeSet (specification SpecApply) *)

\* ApplyChangeSet has built its BatchTimer
TimerBuilt == apc \notin {"idle", "new", "constructed", "failed"}

\* C13: whatever batch size the configuration holds, zero and negative
\* numbers included, the adapter that its constructor returns without an
\* error holds a batch size of at least 1 (the configured one when that is
\* positive, the adapter's default otherwise), and the BatchTimer of
\* ApplyChangeSet is built with that batch size.  (A constructor that returns
\* an error sets no default; its adapter is not used.)
C13_PositiveBatchSize ==
    LET batchSize == IF destinationType = "WebHelpDesk"
                     THEN config.BatchSizePerMinute
                     ELSE config.BatchSize
    IN  /\ apc \notin {"idle", "new", "failed"} =>
              /\ batchSize >= 1
              /\ batchSize \in ConfiguredBatchSizes
                    \cup {DefaultBatchSizePerMinute, DefaultBatchSize}
        /\ TimerBuilt =>
              /\ batchTimer.BatchSize = batchSize
              /\ batchTimer.BatchSize >= 1

\* the configuration held no positive batch size: the timer of the
\* WebHelpDesk adapter was built with the default, and goroutines were
\* started under it
C13_Witness ==
    /\ TimerBuilt
    /\ destinationType = "WebHelpDesk"
    /\ batchTimer.BatchSize = DefaultBatchSizePerMinute
    /\ Len(units) >= 2

-----------------------------------------------------------------------------
(* Claims on the goroutines of ApplyChangeSet (specification SpecApply) *)

\* the change the i-th goroutine was started for
ChangeOf(i) == Queue(destinationType, changeSet)[i]

\* the goroutines started for the changes of one list
UnitsOf(kind) == {i \in 1..Len(units) : ChangeOf(i).kind = kind}

\* the goroutines whose requests succeeded
Succeeded(kind) == {i \in UnitsOf(kind) : units[i].ok}

\* the goroutines that are past atomic.AddUint64
Counted(kind) == {i \in Succeeded(kind) : units[i].st \in {"done", "finished"}}

\* the goroutines that have returned
Finished == {i \in 1..Len(units) : units[i].st = "finished"}

\* the goroutines that sent an item on eventLog
Logging == {i \in 1..Len(units) : \E item \in logged : item[1] = i}

\* C14: under every interleaving of the goroutines, each of Created, Updated
\* and Deleted is at every moment the number of goroutines of its list that
\* are past their atomic.AddUint64, and when ApplyChangeSet returns it is the
\* number of goroutines of its list that succeeded (whose requests returned
\* no error): no increment is lost, none is counted elsewhere.
C14_CountersExact ==
    /\ results.Created = Cardinality(Counted("create"))
    /\ results.Updated = Cardinality(Counted("update"))
    /\ results.Deleted = Cardinality(Counted("delete"))
    /\ apc = "returned" =>
          /\ results.Created = Cardinality(Succeeded("create"))
          /\ results.Updated = Cardinality(Succeeded("update"))
          /\ results.Deleted = Cardinality(Succeeded("delete"))

\* ApplyChangeSet returned after two goroutines added to the same counter
C14_Witness ==
    /\ apc = "returned"
    /\ \/ results.Created = 2
       \/ results.Updated = 2
       \/ results.Deleted = 2

\* C15: a goroutine whose remote operation failed (a step before the request
\* or the request returned an error, or the server answered the request
\* without carrying the change out) adds to no counter, and when
\* ApplyChangeSet returns every change it ranges over has had its goroutine,
\* whichever of them failed.
C15_FailedNeverCounted ==
    /\ \A i \in 1..Len(units) :
          (units[i].st \in {"done", "finished"} /\ ~units[i].confirmed) =>
              /\ i \notin Counted(ChangeOf(i).kind)
              /\ results.Created + results.Updated + results.Deleted
                    <= Cardinality({j \in 1..Len(units) : units[j].confirmed})
    /\ apc = "returned" =>
          /\ Len(units) = Len(Queue(destinationType, changeSet))
          /\ Finished = 1..Len(units)

\* C16: ApplyChangeSet returns only when every goroutine it started has
\* returned (the WaitGroup is back at zero), every change it ranges over has
\* had its goroutine, and after the return no counter changes.
C16_ReturnsAfterJoin ==
    [][ /\ apc' = "returned" =>
              /\ wg' = 0
              /\ Len(units') = Len(Queue(destinationType, changeSet))
              /\ \A i \in 1..Len(units') : units'[i].st = "finished"
        /\ apc = "returned" => results' = results
      ]_vars

\* ApplyChangeSet returned after two goroutines, one that failed and one
\* that was counted
C16_Witness ==
    /\ apc = "returned"
    /\ Len(units) = 2
    /\ \E i \in 1..2 : ~units[i].ok
    /\ \E i \in 1..2 : units[i].ok
    /\ wg = 0

\* C17: every goroutine of ApplyChangeSet, whether its request succeeded or
\* failed, has sent at least one item on eventLog when it returns; a
\* successful update and a successful delete included.
C17_EveryAttemptLogged ==
    \A i \in Finished : i \in Logging

\* C18: with a buffered eventLog that nobody receives from while
\* ApplyChangeSet runs, ApplyChangeSet is never stuck before its return:
\* as long as it has not returned, it or one of its goroutines can take a step.
C18_NoDeadlockOnEventLog ==
    (~consumer /\ apc \notin {"idle", "failed", "returned"}) => ENABLED NextApply

\* C19: when the WebHelpDesk adapter returns from ApplyChangeSet on a change
\* set whose Delete list is not empty, it started no goroutine for a delete,
\* Deleted is 0, every create and every update had its goroutine, and an item
\* saying that deletes are not supported was sent on eventLog (an item that
\* is not the item of a goroutine: goroutine 0).
C19_DeletesUnsupported ==
    (destinationType = "WebHelpDesk" /\ apc = "returned" /\ changeSet.Delete # <<>>) =>
        /\ UnitsOf("delete") = {}
        /\ results.Deleted = 0
        /\ Cardinality(UnitsOf("create")) = Len(changeSet.Create)
        /\ Cardinality(UnitsOf("update")) = Len(changeSet.Update)
        /\ Finished = 1..Len(units)
        /\ \E item \in logged : item[1] = 0

-----------------------------------------------------------------------------
(* Claims on RemapToDestinationAttributes (specification SpecPlan) *)

\* RemapToDestinationAttributes has run: sourcePeople holds its result for
\* the listing sourceDirectory
Projected ==
    \/ pc \in {"FetchingDestination", "Diffing", "DryRunReporting", "Applying"}
    \/ pc = "Done" /\ calls.destination = 1

\* the entries of the attribute map whose source key the person has
PresentEntries(person) ==
    {k \in 1..Len(attributeMap) : attributeMap[k].Source \in DOMAIN person.Attributes}

\* the last entry of the attribute map that names the destination key and
\* whose source key the person has
LastEntryFor(key, person) ==
    CHOOSE k \in PresentEntries(person) :
        /\ attributeMap[k].Destination = key
        /\ \A j \in PresentEntries(person) :
              attributeMap[j].Destination = key => j <= k

\* C20 as stated: RemapToDestinationAttributes returns one record per input
\* record, in the order of the input, with the CompareValue unchanged; the
\* keys of its attributes are the destination keys of the entries whose source
\* key the input record has, each holding the value of that source key; and
\* no destination key of an entry whose source key the record lacks is among
\* them.
C20_ProjectionPerEntry ==
    Projected =>
        /\ Len(sourcePeople) = Len(sourceDirectory)
        /\ \A i \in 1..Len(sourceDirectory) :
              LET in  == sourceDirectory[i]
                  out == sourcePeople[i]
              IN  /\ out.CompareValue = in.CompareValue
                  /\ DOMAIN out.Attributes =
                        {attributeMap[k].Destination : k \in PresentEntries(in)}
                  /\ \A k \in PresentEntries(in) :
                        out.Attributes[attributeMap[k].Destination]
                            = in.Attributes[attributeMap[k].Source]
                  /\ \A k \in (1..Len(attributeMap)) \ PresentEntries(in) :
                        attributeMap[k].Destination \notin DOMAIN out.Attributes

\* C20, amended: RemapToDestinationAttributes returns one record per input
\* record, in the order of the input, with the CompareValue unchanged; the
\* keys of its attributes are the destination keys of the entries whose source
\* key the input record has, each holding the value of the source key of the
\* last such entry that names it.  No other key is among them: no source
\* key that is not mapped, and no destination key all of whose entries have a
\* source key the record lacks.
C20_Projection ==
    Projected =>
        /\ Len(sourcePeople) = Len(sourceDirectory)
        /\ \A i \in 1..Len(sourceDirectory) :
              LET in  == sourceDirectory[i]
                  out == sourcePeople[i]
              IN  /\ out.CompareValue = in.CompareValue
                  /\ DOMAIN out.Attributes =
                        {attributeMap[k].Destination : k \in PresentEntries(in)}
                  /\ \A key \in DOMAIN out.Attributes :
                        out.Attributes[key]
                            = in.Attributes[attributeMap[LastEntryFor(key, in)].Source]

\* two entries name the destination key k1, the record has both source keys
\* with different values, and a second record follows it: k1 holds the value
\* of the later entry
C20_Witness ==
    /\ Projected
    /\ Len(attributeMap) = 2
    /\ attributeMap[1].Destination = attributeMap[2].Destination
    /\ Len(sourceDirectory) = 2
    /\ DOMAIN sourceDirectory[1].Attributes = {"s1", "s2"}
    /\ sourceDirectory[1].Attributes["s1"] # sourceDirectory[1].Attributes["s2"]
    /\ sourcePeople[1].Attributes =
          [k \in {"k1"} |-> sourceDirectory[1].Attributes[attributeMap[2].Source]]
    /\ sourcePeople[2].CompareValue # sourcePeople[1].CompareValue

\* C21: RemapToDestinationAttributes returns no error and one record per
\* input record, whatever the listing and the attribute map, and the run
\* goes on past it; an output record has DisableChanges set if and only if
\* some entry of the attribute map with Required set names a source key the
\* input record lacks.  An absent source key of an entry that is not
\* required does not set it.
C21_DegradesNeverFails ==
    /\ RemapToDestinationAttributes(sourceDirectory, attributeMap).Err = NoError
    /\ (results.Errors # <<>>) => (listErr # NoError)
    /\ (pc = "Done" /\ calls.source = 1 /\ calls.destination = 0) => listErr # NoError
    /\ Projected =>
          /\ Len(sourcePeople) = Len(sourceDirectory)
          /\ \A i \in 1..Len(sourceDirectory) :
                sourcePeople[i].DisableChanges
                    <=> MissesRequired(sourceDirectory[i], attributeMap)

\* under one attribute map, a record that lacks the required source key is
\* disabled, and a record that lacks only the key that is not required is not
C21_Witness ==
    /\ Projected
    /\ Len(sourceDirectory) = 2
    /\ \E k \in 1..Len(attributeMap) : attributeMap[k].Required
    /\ \E i, j \in 1..2 :
          /\ sourcePeople[i].DisableChanges
          /\ ~sourcePeople[j].DisableChanges
          /\ \E k \in 1..Len(attributeMap) :
                /\ ~attributeMap[k].Required
                /\ attributeMap[k].Source \notin DOMAIN sourceDirectory[j].Attributes

-----------------------------------------------------------------------------
(* Claims on the records handed to ApplyChangeSet (specification SpecPlan) *)

\* C22: in the change set that SyncPeople computes, every record of Update
\* carries the ID of the destination record it matched (the first destination
\* record of its identity), every record of Delete carries the ID of the
\* destination record it is, and the records of Create carry none.
C22_ExternalIDCarried ==
    Diffed =>
        /\ \A u \in Range(changeSet.Update) :
              \A j \in 1..Len(destinationPeople) :
                  IsFirstMatch(j, u.CompareValue, destinationPeople)
                      => u.ID = destinationPeople[j].ID
        /\ \A d \in Range(changeSet.Delete) :
              \E j \in 1..Len(destinationPeople) :
                  /\ SameIdentity(d.CompareValue, destinationPeople[j].CompareValue)
                  /\ d.ID = destinationPeople[j].ID
        /\ \A c \in Range(changeSet.Create) : c.ID = EmptyString

-----------------------------------------------------------------------------
(* Claims on the dispatch of the goroutines (specification SpecApply) *)

\* the call of WaitOnBatch that follows the go statement of the i-th
\* goroutine has returned
AdmissionReturned(i) == i < Len(units) \/ apc # "gate"

\* C23: a goroutine of ApplyChangeSet runs (takes its first step) only
\* after the call of WaitOnBatch made for it has returned; none runs while
\* that call is still to be made or has not returned.
C23_GatedBeforeDispatch ==
    \A i \in 1..Len(units) :
        units[i].st # FirstStep(destinationType, ChangeOf(i).kind) => AdmissionReturned(i)

\* the goroutines started so far are, in order, one for each of the first
\* elements of Create, then Update, then Delete: none skipped, none twice
OnePerElement ==
    LET all == Tagged("create", changeSet.Create)
               \o Tagged("update", changeSet.Update)
               \o Tagged("delete", changeSet.Delete)
    IN  /\ Len(units) <= Len(all)
        /\ \A i \in 1..Len(units) : ChangeOf(i) = all[i]

\* no counter exceeds the length of its list
CountersWithinLists ==
    /\ results.Created <= Len(changeSet.Create)
    /\ results.Updated <= Len(changeSet.Update)
    /\ results.Deleted <= Len(changeSet.Delete)

\* every element has had its goroutine, and each goroutine succeeded or failed
AllAccountedFor ==
    /\ Len(units) = Len(changeSet.Create) + Len(changeSet.Update) + Len(changeSet.Delete)
    /\ Cardinality({i \in Finished : units[i].ok})
          + Cardinality({i \in Finished : ~units[i].ok})
          = Len(changeSet.Create) + Len(changeSet.Update) + Len(changeSet.Delete)

\* C24: in ApplyChangeSet of GoogleContacts, after every step, the
\* goroutines started are one per element of Create, Update and Delete in
\* that order, no counter exceeds the length of its list, no step lowers a
\* counter, and at the return the goroutines that succeeded and those that
\* failed are together as many as the three lists hold.
C24_OneUnitPerChange ==
    [][ destinationType = "GoogleContacts" =>
          /\ OnePerElement'
          /\ CountersWithinLists'
          /\ results'.Created >= results.Created
          /\ results'.Updated >= results.Updated
          /\ results'.Deleted >= results.Deleted
          /\ apc' = "returned" => AllAccountedFor'
      ]_vars

\* GoogleContacts returned from a change set with a create and a delete:
\* one succeeded and was counted, the other failed
C24_Witness ==
    /\ destinationType = "GoogleContacts"
    /\ apc = "returned"
    /\ Len(changeSet.Create) = 1
    /\ Len(changeSet.Delete) = 1
    /\ Len(units) = 2
    /\ units[1].ok # units[2].ok
    /\ results.Created + results.Deleted = 1

====
